---------------------------- MODULE Spec2Model ----------------------------
(***************************************************************************)
(* Model of the upbot operator's two reconcilers for one object key:       *)
(*   - IngressWatcherReconciler (internal/controller/                      *)
(*     ingress_watcher_controller.go), the Route Watcher, which derives a  *)
(*     Monitor from an Ingress;                                            *)
(*   - MonitorReconciler (internal/controller/monitor_controller.go), the  *)
(*     Lifecycle Reconciler, which drives a Monitor against the external   *)
(*     Upbot service behind a finalizer.                                   *)
(* A reconcile is split at its calls to the store and to the external      *)
(* service, so that the two reconcilers, the users of the cluster and the  *)
(* platform interleave between a read and the write that follows it.       *)
(* Strings the code inspects or builds are sequences of characters.        *)
(***************************************************************************)
EXTENDS Naturals, Sequences, FiniteSets, TLC

VARIABLES
    ingress,    \* the Ingress stored at the key, or None
    monitor,    \* the Monitor stored at the key, or None
    remote,     \* the external service: identifier -> the record it holds
    nextID,     \* number of records the external service has created
    Interval,   \* IngressWatcherReconciler.Interval, the configured default
    mr,         \* the MonitorReconciler's reconcile: position, object read, calls, result
    iw          \* the IngressWatcherReconciler's reconcile: the same

vars == <<ingress, monitor, remote, nextID, Interval, mr, iw>>

(***************************************************************************)
(* Bounds.                                                                 *)
(***************************************************************************)
\* The external service creates at most this many records in a behaviour.
MaxIDs == 2

(***************************************************************************)
(* Strings.                                                                *)
(***************************************************************************)
None == [kind |-> "none"]

Empty == <<>>
Http == <<"h", "t", "t", "p">>
Https == <<"h", "t", "t", "p", "s">>
SchemeSep == <<":", "/", "/">>
Slash == <<"/">>
Thirty == <<"3", "0">>
Ten == <<"1", "0">>
StrFalse == <<"f", "a", "l", "s", "e">>
StrDisabled == <<"d", "i", "s", "a", "b", "l", "e", "d">>
StrTrue == <<"t", "r", "u", "e">>

\* monitor_controller.go:33
monitorFinalizer == "monitoring.upbot.app/finalizer"

\* The keys of the maps the code reads and writes.
PathKey == "upbot.app/path"
IntervalKey == "upbot.app/interval"
MonitorKey == "upbot.app/monitor"
SourceKey == "upbot.app/source"
TargetTypeKey == "upbot.app/target-type"
AutoGeneratedKey == "upbot.app/auto-generated"
SourceIngressKey == "upbot.app/source-ingress"

\* The map with no key.
EmptyMap == [k \in {} |-> Empty]

(***************************************************************************)
(* The Ingresses the users of the cluster write.  An Ingress is its        *)
(* annotations, the hosts of its rules in order, and the number of its TLS *)
(* entries; its namespace and name are the key.                            *)
(***************************************************************************)
HostA == <<"a">>
HostB == <<"b">>
Hosts == {Empty, HostA, HostB}

RuleLists ==
    {<<>>} \cup {<<h>> : h \in Hosts} \cup {<<HostA, HostB>>, <<HostB, HostA>>, <<HostA, Empty>>}

PathValues == {Empty, <<"h">>, <<"/", "v", "/">>, Slash, <<"/", "/">>, <<"h", "/">>}
IntervalValues == {Empty, Ten}
MonitorValues == {StrFalse, StrDisabled, StrTrue, Empty}

\* Annotation maps with at most one directive, and one with all three.
AnnotationMaps ==
    {EmptyMap}
        \cup {[k \in {PathKey} |-> p] : p \in PathValues}
        \cup {[k \in {IntervalKey} |-> i] : i \in IntervalValues}
        \cup {[k \in {MonitorKey} |-> m] : m \in MonitorValues}
        \cup {[k \in {PathKey, IntervalKey, MonitorKey} |->
                 IF k = PathKey THEN <<"h">> ELSE IF k = IntervalKey THEN Ten ELSE StrTrue]}

TLSCounts == {0, 1}

AllIngresses == [annotations : AnnotationMaps, rules : RuleLists, tls : TLSCounts]

\* The Ingresses applied while both reconcilers run: valid, valid with another
\* target, disabled by directive, and without rules.
LiveIngresses ==
    { [annotations |-> EmptyMap, rules |-> <<HostA>>, tls |-> 0],
      [annotations |-> EmptyMap, rules |-> <<HostA>>, tls |-> 1],
      [annotations |-> [k \in {MonitorKey} |-> StrFalse], rules |-> <<HostA>>, tls |-> 0],
      [annotations |-> EmptyMap, rules |-> <<>>, tls |-> 0] }

\* The values of the process-wide default interval: unset, or sixty seconds.
Sixty == <<"6", "0">>
ConfiguredIntervals == {Empty, Sixty}

(***************************************************************************)
(* IngressWatcherReconciler: the pure part.                                *)
(***************************************************************************)
\* getTargetFromIngress: <<target, failed>>.
getTargetFromIngress(ing) ==
    IF Len(ing.rules) = 0 THEN [target |-> Empty, err |-> TRUE]
    ELSE IF ing.rules[1] = Empty THEN [target |-> Empty, err |-> TRUE]
    ELSE LET scheme == IF ing.tls = 0 THEN Http ELSE Https
         IN  [target |-> scheme \o SchemeSep \o ing.rules[1], err |-> FALSE]

\* createMonitorFromIngress, lines 71-74: the interval of a new Monitor.
createInterval(configured) == IF configured = Empty THEN Thirty ELSE configured

\* createMonitorFromIngress, lines 76-97: the Monitor handed to Create.
NewMonitor(ing, configured) ==
    [ labels |-> [k \in {SourceKey} |-> "ingress-watcher"],
      annotations |-> [k \in {AutoGeneratedKey} |-> "true"],
      owner |-> TRUE,
      spec |-> [type |-> Http,
                target |-> getTargetFromIngress(ing).target,
                interval |-> createInterval(configured)],
      finalizers |-> {},
      deletionTimestamp |-> FALSE,
      status |-> [externalID |-> ""] ]


(***************************************************************************)
(* What a reconcile records: the calls it made to the store and to the     *)
(* external service, in order, each with its outcome, and what it returned *)
(* to the scheduler ("nil" or "err"; "none" while it runs).  The objects it *)
(* read are its own while it runs and are dropped when it returns.         *)
(***************************************************************************)
Call(op, arg, out) == [op |-> op, arg |-> arg, out |-> out]

LastCall(r) == r.calls[Len(r.calls)]

\* The store's optimistic concurrency: a write by anyone else makes the version
\* a running MonitorReconciler read a stale one.
Touch(r) == IF r.pc = "idle" THEN r ELSE [r EXCEPT !.stale = TRUE]

(***************************************************************************)
(* IngressWatcherReconciler.Reconcile, up to its first write.  Its two     *)
(* reads, of the Ingress and then of the Monitor, are one step.            *)
(***************************************************************************)
\* r.Get of the Ingress fails: the error is returned.
IW_GetIngressFails ==
    /\ iw.pc = "idle"
    /\ iw' = [pc |-> "idle", ing |-> None, obj |-> None,
              calls |-> <<Call("GetIngress", "", "err")>>, result |-> "err"]
    /\ UNCHANGED <<ingress, monitor, remote, nextID, Interval, mr>>

\* The Ingress is not found: nothing to do.
IW_IngressNotFound ==
    /\ iw.pc = "idle"
    /\ ingress = None
    /\ iw' = [pc |-> "idle", ing |-> None, obj |-> None,
              calls |-> <<Call("GetIngress", "", "notfound")>>, result |-> "nil"]
    /\ UNCHANGED <<ingress, monitor, remote, nextID, Interval, mr>>

\* r.Get of the Monitor fails with something other than not-found.
IW_GetMonitorFails ==
    /\ iw.pc = "idle"
    /\ ingress # None
    /\ iw' = [pc |-> "idle", ing |-> None, obj |-> None,
              calls |-> <<Call("GetIngress", "", "ok"), Call("GetMonitor", "", "err")>>,
              result |-> "err"]
    /\ UNCHANGED <<ingress, monitor, remote, nextID, Interval, mr>>

\* IW_MonitorExists, writing the derived spec into whatever Monitor it finds.
IW_MonitorExists_UpdatesAny ==
    /\ iw.pc = "idle"
    /\ ingress # None
    /\ monitor # None
    /\ ~getTargetFromIngress(ingress).err
    /\ iw' = [pc |-> "idle", ing |-> None, obj |-> None,
              calls |-> <<Call("GetIngress", "", "ok"), Call("GetMonitor", "", "ok"),
                          Call("Update", "", "ok")>>,
              result |-> "nil"]
    /\ monitor' = [monitor EXCEPT !.spec = NewMonitor(ingress, Interval).spec]
    /\ mr' = Touch(mr)
    /\ UNCHANGED <<ingress, remote, nextID, Interval>>

\* IW_MonitorExists, going on to create although the Monitor was found.
IW_MonitorExists_Recreates ==
    /\ iw.pc = "idle"
    /\ ingress # None
    /\ monitor # None
    /\ ~getTargetFromIngress(ingress).err
    /\ iw' = [pc |-> "create", ing |-> ingress, obj |-> NewMonitor(ingress, Interval),
              calls |-> <<Call("GetIngress", "", "ok"), Call("GetMonitor", "", "ok")>>,
              result |-> "none"]
    /\ UNCHANGED <<ingress, monitor, remote, nextID, Interval, mr>>

\* The Monitor exists: Reconcile returns without touching it.
IW_MonitorExists ==
    /\ iw.pc = "idle"
    /\ ingress # None
    /\ monitor # None
    /\ iw' = [pc |-> "idle", ing |-> None, obj |-> None,
              calls |-> <<Call("GetIngress", "", "ok"), Call("GetMonitor", "", "ok")>>,
              result |-> "nil"]
    /\ UNCHANGED <<ingress, monitor, remote, nextID, Interval, mr>>

\* The Monitor is not found: createMonitorFromIngress, up to r.Create.
IW_MonitorNotFound ==
    /\ iw.pc = "idle"
    /\ ingress # None
    /\ monitor = None
    /\ LET calls == <<Call("GetIngress", "", "ok"), Call("GetMonitor", "", "notfound")>>
       IN  iw' = IF getTargetFromIngress(ingress).err
                 THEN [pc |-> "idle", ing |-> None, obj |-> None,
                       calls |-> calls, result |-> "err"]
                 ELSE [pc |-> "create", ing |-> ingress, obj |-> NewMonitor(ingress, Interval),
                       calls |-> calls, result |-> "none"]
    /\ UNCHANGED <<ingress, monitor, remote, nextID, Interval, mr>>

\* createMonitorFromIngress, r.Create: the store refuses a second object at
\* the key, and may fail for its own reasons.
IW_Create ==
    /\ iw.pc = "create"
    /\ \E out \in IF monitor # None THEN {"exists"} ELSE {"ok", "err"} :
          /\ iw' = [iw EXCEPT !.pc = "idle", !.ing = None, !.obj = None,
                              !.calls = Append(@, Call("Create", "", out)),
                              !.result = IF out = "ok" THEN "nil" ELSE "err"]
          /\ monitor' = IF out = "ok" THEN iw.obj ELSE monitor
          /\ mr' = IF out = "ok" THEN Touch(mr) ELSE mr
    /\ UNCHANGED <<ingress, remote, nextID, Interval>>

(***************************************************************************)
(* MonitorReconciler.                                                      *)
(***************************************************************************)
ContainsFinalizer(m) == monitorFinalizer \in m.finalizers

\* Dispatch, creating without the finalizer step.
Dispatch_NoFinalizerStep(m) ==
    IF m.deletionTimestamp
    THEN IF ~ContainsFinalizer(m) THEN "idle"
         ELSE IF m.status.externalID # "" THEN "extDelete"
         ELSE "removeFinalizer"
    ELSE IF m.status.externalID # "" THEN "extUpdate"
    ELSE "extCreate"

\* Dispatch, creating without the test of the identifier.
Dispatch_CreatesWhenSynced(m) ==
    IF m.deletionTimestamp
    THEN IF ~ContainsFinalizer(m) THEN "idle"
         ELSE IF m.status.externalID # "" THEN "extDelete"
         ELSE "removeFinalizer"
    ELSE IF ~ContainsFinalizer(m) THEN "addFinalizer"
    ELSE "extCreate"

\* Dispatch, looking for the finalizer before it looks for a deletion request.
Dispatch_FinalizerFirst(m) ==
    IF ~ContainsFinalizer(m) THEN "addFinalizer"
    ELSE IF m.deletionTimestamp
         THEN IF m.status.externalID # "" THEN "extDelete" ELSE "removeFinalizer"
    ELSE IF m.status.externalID # "" THEN "extUpdate"
    ELSE "extCreate"

\* Where Reconcile goes with the Monitor it read (lines 66-82, 97, 177, 183).
Dispatch(m) ==
    IF m.deletionTimestamp
    THEN IF ~ContainsFinalizer(m) THEN "idle"
         ELSE IF m.status.externalID # "" THEN "extDelete"
         ELSE "removeFinalizer"
    ELSE IF ~ContainsFinalizer(m) THEN "addFinalizer"
    ELSE IF m.status.externalID # "" THEN "extUpdate"
    ELSE "extCreate"

\* The request handleCreateOrUpdate and handleUpdate send: the full spec.
Request(m) == m.spec

\* A reconcile ends: what it returns, after one more call.
MR_Return(call, result) ==
    [mr EXCEPT !.pc = "idle", !.obj = None, !.stale = FALSE,
                !.calls = Append(@, call), !.result = result]

\* WriteOutcomes, the store accepting a write of a version written since.
WriteOutcomes_IgnoresVersion ==
    IF monitor = None THEN {"notfound"}
    ELSE {"ok", "err"}

\* The outcomes of a write of the version read: refused when the Monitor is
\* gone or was written since, else done or failed.
WriteOutcomes ==
    IF monitor = None THEN {"notfound"}
    ELSE IF mr.stale THEN {"conflict"}
    ELSE {"ok", "err"}

\* Reconcile, line 60: r.Get fails.
MR_GetFails ==
    /\ mr.pc = "idle"
    /\ mr' = [pc |-> "idle", obj |-> None, stale |-> FALSE,
              calls |-> <<Call("Get", "", "err")>>, result |-> "err"]
    /\ UNCHANGED <<ingress, monitor, remote, nextID, Interval, iw>>

\* Reconcile, lines 60-64: the Monitor is gone; not-found is ignored.
MR_GetNotFound ==
    /\ mr.pc = "idle"
    /\ monitor = None
    /\ mr' = [pc |-> "idle", obj |-> None, stale |-> FALSE,
              calls |-> <<Call("Get", "", "notfound")>>, result |-> "nil"]
    /\ UNCHANGED <<ingress, monitor, remote, nextID, Interval, iw>>

\* Reconcile, lines 60-82: the Monitor is read and the reconcile takes its branch.
MR_Get ==
    /\ mr.pc = "idle"
    /\ monitor # None
    /\ mr' = IF Dispatch(monitor) = "idle"
             THEN [pc |-> "idle", obj |-> None, stale |-> FALSE,
                   calls |-> <<Call("Get", "", "ok")>>, result |-> "nil"]
             ELSE [pc |-> Dispatch(monitor), obj |-> monitor, stale |-> FALSE,
                   calls |-> <<Call("Get", "", "ok")>>, result |-> "none"]
    /\ UNCHANGED <<ingress, monitor, remote, nextID, Interval, iw>>

\* MR_AddFinalizer, returning nil whether the write was accepted or not.
MR_AddFinalizer_SwallowsError ==
    /\ mr.pc = "addFinalizer"
    /\ \E out \in WriteOutcomes :
          /\ mr' = MR_Return(Call("Update", "addFinalizer", out), "nil")
          /\ monitor' = IF out = "ok"
                        THEN [monitor EXCEPT !.finalizers = @ \cup {monitorFinalizer}]
                        ELSE monitor
    /\ UNCHANGED <<ingress, remote, nextID, Interval, iw>>

\* Reconcile, lines 72-80: the finalizer is added and the Monitor written.
MR_AddFinalizer ==
    /\ mr.pc = "addFinalizer"
    /\ \E out \in WriteOutcomes :
          /\ mr' = MR_Return(Call("Update", "addFinalizer", out),
                             IF out = "ok" THEN "nil" ELSE "err")
          /\ monitor' = IF out = "ok"
                        THEN [monitor EXCEPT !.finalizers = @ \cup {monitorFinalizer}]
                        ELSE monitor
    /\ UNCHANGED <<ingress, remote, nextID, Interval, iw>>

\* MR_ExtCreateFails, taking the finalizer off the Monitor before it returns.
MR_ExtCreateFails_DropsFinalizer ==
    /\ mr.pc = "extCreate"
    /\ mr' = MR_Return(Call("ExtCreate", "", "err"), "err")
    /\ monitor' = IF monitor = None THEN monitor
                  ELSE [monitor EXCEPT !.finalizers = @ \ {monitorFinalizer}]
    /\ UNCHANGED <<ingress, remote, nextID, Interval, iw>>

\* handleCreateOrUpdate, lines 114-120: the create call fails.
MR_ExtCreateFails ==
    /\ mr.pc = "extCreate"
    /\ mr' = MR_Return(Call("ExtCreate", "", "err"), "err")
    /\ UNCHANGED <<ingress, monitor, remote, nextID, Interval, iw>>

\* handleCreateOrUpdate, lines 114-124: the service creates a record and
\* returns its identifier.
MR_ExtCreate ==
    /\ mr.pc = "extCreate"
    /\ nextID < MaxIDs
    /\ LET id == ToString(nextID + 1)
       IN  /\ remote' = [i \in DOMAIN remote \cup {id} |->
                            IF i = id THEN Request(mr.obj) ELSE remote[i]]
           /\ mr' = [mr EXCEPT !.pc = "statusUpdate",
                               !.obj.status.externalID = id,
                               !.calls = Append(@, Call("ExtCreate", "", id))]
    /\ nextID' = nextID + 1
    /\ UNCHANGED <<ingress, monitor, Interval, iw>>

\* handleCreateOrUpdate, lines 123, 132: the service creates a record and the
\* response carries no identifier; nil is returned.
MR_ExtCreateNoID ==
    /\ mr.pc = "extCreate"
    /\ nextID < MaxIDs
    /\ LET id == ToString(nextID + 1)
       IN  remote' = [i \in DOMAIN remote \cup {id} |->
                        IF i = id THEN Request(mr.obj) ELSE remote[i]]
    /\ mr' = MR_Return(Call("ExtCreate", "", "noid"), "nil")
    /\ nextID' = nextID + 1
    /\ UNCHANGED <<ingress, monitor, Interval, iw>>

\* MR_StatusUpdate, writing the Monitor without its labels.
MR_StatusUpdate_DropsLabels ==
    /\ mr.pc = "statusUpdate"
    /\ \E out \in WriteOutcomes :
          /\ mr' = MR_Return(Call("StatusUpdate", mr.obj.status.externalID, out),
                             IF out = "ok" THEN "nil" ELSE "err")
          /\ monitor' = IF out = "ok"
                        THEN [monitor EXCEPT !.status = mr.obj.status,
                                             !.labels = [k \in {} |-> ""]]
                        ELSE monitor
    /\ UNCHANGED <<ingress, remote, nextID, Interval, iw>>

\* handleCreateOrUpdate, lines 124-130: the status with the identifier is written.
MR_StatusUpdate ==
    /\ mr.pc = "statusUpdate"
    /\ \E out \in WriteOutcomes :
          /\ mr' = MR_Return(Call("StatusUpdate", mr.obj.status.externalID, out),
                             IF out = "ok" THEN "nil" ELSE "err")
          /\ monitor' = IF out = "ok"
                        THEN [monitor EXCEPT !.status = mr.obj.status]
                        ELSE monitor
    /\ UNCHANGED <<ingress, remote, nextID, Interval, iw>>

\* MR_ExtUpdate, clearing the identifier when the update fails (the lines
\* left commented out at 161-163).
MR_ExtUpdate_ClearsID ==
    /\ mr.pc = "extUpdate"
    /\ LET id == mr.obj.status.externalID
       IN  \E out \in IF id \in DOMAIN remote THEN {"ok", "err"} ELSE {"gone"} :
             /\ mr' = MR_Return(Call("ExtUpdate", id, out),
                                IF out = "ok" THEN "nil" ELSE "err")
             /\ remote' = IF out = "ok"
                          THEN [remote EXCEPT ![id] = Request(mr.obj)]
                          ELSE remote
             /\ monitor' = IF out = "ok" \/ monitor = None \/ mr.stale THEN monitor
                           ELSE [monitor EXCEPT !.status.externalID = ""]
    /\ UNCHANGED <<ingress, nextID, Interval, iw>>

\* MR_ExtUpdate, turning to the create call when the record is gone.
MR_ExtUpdate_RecreatesWhenGone ==
    /\ mr.pc = "extUpdate"
    /\ LET id == mr.obj.status.externalID
       IN  \E out \in IF id \in DOMAIN remote THEN {"ok", "err"} ELSE {"gone"} :
             /\ mr' = IF out = "gone"
                      THEN MR_Return(Call("ExtCreate", "", "err"), "err")
                      ELSE MR_Return(Call("ExtUpdate", id, out),
                                     IF out = "ok" THEN "nil" ELSE "err")
             /\ remote' = IF out = "ok"
                          THEN [remote EXCEPT ![id] = Request(mr.obj)]
                          ELSE remote
    /\ UNCHANGED <<ingress, monitor, nextID, Interval, iw>>

\* handleUpdate, lines 150-170: the full spec is pushed to the record named by
\* the identifier; the call fails when the record is gone, or for its own reasons.
MR_ExtUpdate ==
    /\ mr.pc = "extUpdate"
    /\ LET id == mr.obj.status.externalID
       IN  \E out \in IF id \in DOMAIN remote THEN {"ok", "err"} ELSE {"gone"} :
             /\ mr' = MR_Return(Call("ExtUpdate", id, out),
                                IF out = "ok" THEN "nil" ELSE "err")
             /\ remote' = IF out = "ok"
                          THEN [remote EXCEPT ![id] = Request(mr.obj)]
                          ELSE remote
    /\ UNCHANGED <<ingress, monitor, nextID, Interval, iw>>

\* MR_ExtDelete, returning the 404 like any other failure.
MR_ExtDelete_NotFoundIsError ==
    /\ mr.pc = "extDelete"
    /\ LET id == mr.obj.status.externalID
       IN  \E out \in IF id \in DOMAIN remote THEN {"ok", "err"} ELSE {"notfound", "err"} :
             /\ mr' = IF out # "ok"
                      THEN MR_Return(Call("ExtDelete", id, out), "err")
                      ELSE [mr EXCEPT !.pc = "removeFinalizer",
                                      !.calls = Append(@, Call("ExtDelete", id, out))]
             /\ remote' = IF out = "ok"
                          THEN [i \in DOMAIN remote \ {id} |-> remote[i]]
                          ELSE remote
    /\ UNCHANGED <<ingress, monitor, nextID, Interval, iw>>

\* MR_ExtDelete, going on to remove the finalizer whatever the failure.
MR_ExtDelete_SwallowsError ==
    /\ mr.pc = "extDelete"
    /\ LET id == mr.obj.status.externalID
       IN  \E out \in IF id \in DOMAIN remote THEN {"ok", "err"} ELSE {"notfound", "err"} :
             /\ mr' = [mr EXCEPT !.pc = "removeFinalizer",
                                 !.calls = Append(@, Call("ExtDelete", id, out))]
             /\ remote' = IF out = "ok"
                          THEN [i \in DOMAIN remote \ {id} |-> remote[i]]
                          ELSE remote
    /\ UNCHANGED <<ingress, monitor, nextID, Interval, iw>>

\* handleDeletion, lines 183-198: the record is deleted; 404 counts as done,
\* any other failure is returned.
MR_ExtDelete ==
    /\ mr.pc = "extDelete"
    /\ LET id == mr.obj.status.externalID
       IN  \E out \in IF id \in DOMAIN remote THEN {"ok", "err"} ELSE {"notfound", "err"} :
             /\ mr' = IF out = "err"
                      THEN MR_Return(Call("ExtDelete", id, out), "err")
                      ELSE [mr EXCEPT !.pc = "removeFinalizer",
                                      !.calls = Append(@, Call("ExtDelete", id, out))]
             /\ remote' = IF out = "ok"
                          THEN [i \in DOMAIN remote \ {id} |-> remote[i]]
                          ELSE remote
    /\ UNCHANGED <<ingress, monitor, nextID, Interval, iw>>

\* MR_RemoveFinalizer, writing the Monitor with the finalizer still on it.
MR_RemoveFinalizer_KeepsFinalizer ==
    /\ mr.pc = "removeFinalizer"
    /\ \E out \in WriteOutcomes :
          mr' = MR_Return(Call("Update", "removeFinalizer", out),
                          IF out = "ok" THEN "nil" ELSE "err")
    /\ UNCHANGED <<ingress, monitor, remote, nextID, Interval, iw>>

\* handleDeletion, lines 200-208: the finalizer is removed and the Monitor
\* written; the platform then removes a Monitor that is being deleted and has
\* no finalizer left.
MR_RemoveFinalizer ==
    /\ mr.pc = "removeFinalizer"
    /\ \E out \in WriteOutcomes :
          /\ mr' = MR_Return(Call("Update", "removeFinalizer", out),
                             IF out = "ok" THEN "nil" ELSE "err")
          /\ monitor' = IF out # "ok" THEN monitor
                        ELSE IF monitor.finalizers \ {monitorFinalizer} = {} THEN None
                        ELSE [monitor EXCEPT !.finalizers = @ \ {monitorFinalizer}]
    /\ UNCHANGED <<ingress, remote, nextID, Interval, iw>>

(***************************************************************************)
(* The users of the cluster, the platform and the external service.        *)
(***************************************************************************)
\* A Monitor a user writes by hand: no label, its own spec.
UserMonitor ==
    [ labels |-> [k \in {} |-> ""],
      annotations |-> [k \in {} |-> ""],
      owner |-> FALSE,
      spec |-> [type |-> Http, target |-> Http \o SchemeSep \o HostB, interval |-> Ten],
      finalizers |-> {},
      deletionTimestamp |-> FALSE,
      status |-> [externalID |-> ""] ]

\* An Ingress is created or changed.
ApplyIngress ==
    /\ \E i \in LiveIngresses : i # ingress /\ ingress' = i
    /\ UNCHANGED <<monitor, remote, nextID, Interval, mr, iw>>

\* The Ingress is deleted.
DeleteIngress ==
    /\ ingress # None
    /\ ingress' = None
    /\ UNCHANGED <<monitor, remote, nextID, Interval, mr, iw>>

\* A user creates a Monitor at the key.
CreateMonitor ==
    /\ monitor = None
    /\ monitor' = UserMonitor
    /\ mr' = Touch(mr)
    /\ UNCHANGED <<ingress, remote, nextID, Interval, iw>>

\* Deletion of the Monitor is requested, by a user or by the garbage
\* collector: a Monitor with a finalizer is marked, another is removed.
DeleteMonitor ==
    /\ monitor # None
    /\ ~monitor.deletionTimestamp
    /\ monitor' = IF monitor.finalizers = {} THEN None
                  ELSE [monitor EXCEPT !.deletionTimestamp = TRUE]
    /\ mr' = Touch(mr)
    /\ UNCHANGED <<ingress, remote, nextID, Interval, iw>>

\* A record of the external service is deleted behind the operator's back.
RemoteVanish ==
    /\ \E id \in DOMAIN remote : remote' = [i \in DOMAIN remote \ {id} |-> remote[i]]
    /\ UNCHANGED <<ingress, monitor, nextID, Interval, mr, iw>>

(***************************************************************************)
(* The system.                                                             *)
(***************************************************************************)
MRInit == [pc |-> "idle", obj |-> None, stale |-> FALSE, calls |-> <<>>, result |-> "none"]
IWInit == [pc |-> "idle", ing |-> None, obj |-> None, calls |-> <<>>, result |-> "none"]

Init ==
    /\ ingress = None
    /\ monitor = None
    /\ remote = [i \in {} |-> None]
    /\ nextID = 0
    /\ Interval = Empty
    /\ mr = MRInit
    /\ iw = IWInit

Next ==
    \/ IW_GetIngressFails
    \/ IW_IngressNotFound
    \/ IW_GetMonitorFails
    \/ IW_MonitorExists
    \/ IW_MonitorNotFound
    \/ IW_Create
    \/ MR_GetFails
    \/ MR_GetNotFound
    \/ MR_Get
    \/ MR_AddFinalizer
    \/ MR_ExtCreateFails
    \/ MR_ExtCreate
    \/ MR_ExtCreateNoID
    \/ MR_StatusUpdate
    \/ MR_ExtUpdate
    \/ MR_ExtDelete
    \/ MR_RemoveFinalizer
    \/ ApplyIngress
    \/ DeleteIngress
    \/ CreateMonitor
    \/ DeleteMonitor
    \/ RemoteVanish

Spec == Init /\ [][Next]_vars

(***************************************************************************)
(* The IngressWatcherReconciler alone, on every Ingress of AllIngresses    *)
(* and every configured default interval.                                  *)
(***************************************************************************)
InitDerive ==
    /\ ingress \in AllIngresses \cup {None}
    /\ monitor = None
    /\ remote = [i \in {} |-> None]
    /\ nextID = 0
    /\ Interval \in ConfiguredIntervals
    /\ mr = MRInit
    /\ iw = IWInit

NextDerive ==
    \/ IW_GetIngressFails
    \/ IW_IngressNotFound
    \/ IW_GetMonitorFails
    \/ IW_MonitorExists
    \/ IW_MonitorNotFound
    \/ IW_Create

SpecDerive == InitDerive /\ [][NextDerive]_vars

(***************************************************************************)
(* What the documentation says of the Route Watcher, for the properties    *)
(* stated in its terms.                                                    *)
(***************************************************************************)
\* A Monitor is managed when it carries the ownership label.
Managed(m) == SourceKey \in DOMAIN m.labels /\ m.labels[SourceKey] = "ingress-watcher"

\* An Ingress is disabled by the monitor directive "false" or "disabled".
Disabled(ing) ==
    MonitorKey \in DOMAIN ing.annotations
        /\ ing.annotations[MonitorKey] \in {StrFalse, StrDisabled}

\* The path directive, with a leading slash added when it has none and one
\* trailing slash removed unless the path is "/".
NormalizePath(p) ==
    LET q == IF Len(p) = 0 \/ p[1] # "/" THEN Slash \o p ELSE p
    IN  IF Len(q) > 1 /\ q[Len(q)] = "/" THEN SubSeq(q, 1, Len(q) - 1) ELSE q

\* An Ingress a target can be derived from: a first rule with a host.
Valid(ing) == Len(ing.rules) > 0 /\ ing.rules[1] # Empty

\* The target of a valid Ingress: scheme://host, then the normalized path
\* when the path directive is present (and says something).
DesiredTarget(ing) ==
    (IF ing.tls > 0 THEN Https ELSE Http) \o SchemeSep \o ing.rules[1]
        \o (IF PathKey \in DOMAIN ing.annotations /\ ing.annotations[PathKey] # Empty
            THEN NormalizePath(ing.annotations[PathKey])
            ELSE Empty)

\* The interval: the directive, else the configured default, else "30".
DesiredInterval(ing, configured) ==
    IF IntervalKey \in DOMAIN ing.annotations /\ ing.annotations[IntervalKey] # Empty
    THEN ing.annotations[IntervalKey]
    ELSE IF configured # Empty THEN configured
    ELSE Thirty

\* The Monitor holds the spec desired for the Ingress.
InSync(m, ing, configured) ==
    /\ m.spec.type = Http
    /\ m.spec.target = DesiredTarget(ing)
    /\ m.spec.interval = DesiredInterval(ing, configured)

(***************************************************************************)
(* Steps, as the properties below speak of them.                           *)
(***************************************************************************)
ExternalOps == {"ExtCreate", "ExtUpdate", "ExtDelete"}
WriteOps == {"Create", "Update", "StatusUpdate", "Delete"}

\* This step, the MonitorReconciler makes the call op.
MRCalls(op) ==
    /\ mr'.calls # mr.calls
    /\ Len(mr'.calls) > 0
    /\ LastCall(mr').op = op

\* This step is one of the MonitorReconciler's.
MRStep == mr'.calls # mr.calls

\* This step is one of the IngressWatcherReconciler's.
IWStep == iw' # iw

\* The calls of kind ops a reconcile has made.
CallsIn(r, ops) == {i \in 1..Len(r.calls) : r.calls[i].op \in ops}

(***************************************************************************)
(* C1.  Lifecycle ordering: no external create call is made before the     *)
(* finalizer is attached and persisted on the Monitor - when create is     *)
(* called the stored Monitor carries the finalizer, and so did the version *)
(* the reconcile read - and the reconcile that attaches the finalizer      *)
(* makes no external call, so the create happens in a later reconcile.     *)
(***************************************************************************)
C1_MarkerBeforeCreate ==
    [][ /\ MRCalls("ExtCreate") =>
            /\ monitor # None
            /\ ContainsFinalizer(monitor)
            /\ ContainsFinalizer(mr.obj)
            /\ CallsIn(mr, WriteOps) = {}
        /\ MRCalls("Update") /\ LastCall(mr').arg = "addFinalizer" =>
            CallsIn(mr', ExternalOps) = {}
      ]_vars

\* The create call has been made, in a reconcile that wrote nothing before it.
C1_Witness ==
    /\ mr.pc = "statusUpdate"
    /\ mr.calls[2].op = "ExtCreate"
    /\ monitor # None
    /\ ContainsFinalizer(monitor)

(***************************************************************************)
(* C2.  Ownership: whatever the Ingress at the key (absent, disabled,      *)
(* enabled and valid, enabled and invalid), a step of the Route Watcher    *)
(* taken while the Monitor at the key lacks the ownership label leaves     *)
(* that Monitor unchanged, and the reconcile has issued no update and no   *)
(* delete.                                                                 *)
(***************************************************************************)
C2_UnmanagedUntouched ==
    [][ IWStep /\ monitor # None /\ ~Managed(monitor) =>
            /\ monitor' = monitor
            /\ CallsIn(iw', {"Update", "Delete"}) = {}
      ]_vars

\* A reconcile of a disabled Ingress has returned and the unmanaged Monitor
\* it found is still there.
C2_Witness ==
    /\ iw.pc = "idle"
    /\ iw.calls = <<Call("GetIngress", "", "ok"), Call("GetMonitor", "", "ok")>>
    /\ ingress # None
    /\ Disabled(ingress)
    /\ monitor = UserMonitor

(***************************************************************************)
(* C3, as specified.  Deletion with prior external removal: a reconcile in *)
(* which the external delete returned not-found ends with the finalizer    *)
(* removed and returns no error.                                           *)
(***************************************************************************)
C3_Original ==
    (mr.pc = "idle" /\ Len(mr.calls) >= 2 /\ mr.calls[2].op = "ExtDelete"
        /\ mr.calls[2].out = "notfound") =>
        /\ mr.result = "nil"
        /\ (monitor = None \/ ~ContainsFinalizer(monitor))

(***************************************************************************)
(* C3, as the code has it.  After the external delete returned not-found   *)
(* the reconcile goes on to write the Monitor without the finalizer; when  *)
(* the store accepts that write the finalizer is removed and nil is        *)
(* returned, and when the store fails it the error is returned and the     *)
(* finalizer stays.                                                        *)
(***************************************************************************)
C3_NotFoundRemovesMarker ==
    (Len(mr.calls) >= 2 /\ mr.calls[2].op = "ExtDelete" /\ mr.calls[2].out = "notfound") =>
        IF mr.pc # "idle"
        THEN mr.pc = "removeFinalizer"
        ELSE /\ Len(mr.calls) = 3
             /\ mr.calls[3].op = "Update"
             /\ mr.calls[3].arg = "removeFinalizer"
             /\ IF mr.calls[3].out = "ok"
                THEN mr.result = "nil" /\ (monitor = None \/ ~ContainsFinalizer(monitor))
                ELSE mr.result = "err" /\ monitor # None /\ ContainsFinalizer(monitor)

\* The external delete returned not-found, the write was accepted, and the
\* Monitor is gone.
C3_Witness ==
    /\ mr.pc = "idle"
    /\ Len(mr.calls) = 3
    /\ mr.calls[2].op = "ExtDelete"
    /\ mr.calls[2].out = "notfound"
    /\ mr.calls[3].out = "ok"
    /\ mr.result = "nil"
    /\ monitor = None

(***************************************************************************)
(* C4.  A reconcile in which the external delete failed with anything but  *)
(* not-found returns the error and writes nothing to the store; the        *)
(* Monitor keeps its finalizer and its externalID and is still being       *)
(* deleted, so the next reconcile calls the external delete again.         *)
(***************************************************************************)
C4_DeleteFailureKeepsMarker ==
    (Len(mr.calls) >= 2 /\ mr.calls[2].op = "ExtDelete" /\ mr.calls[2].out = "err") =>
        /\ mr.pc = "idle"
        /\ mr.result = "err"
        /\ Len(mr.calls) = 2
        /\ monitor # None
        /\ ContainsFinalizer(monitor)
        /\ monitor.status.externalID = mr.calls[2].arg
        /\ monitor.status.externalID # ""
        /\ Dispatch(monitor) = "extDelete"

\* The external delete has failed while the record still exists.
C4_Witness ==
    /\ mr.pc = "idle"
    /\ Len(mr.calls) = 2
    /\ mr.calls[2].op = "ExtDelete"
    /\ mr.calls[2].out = "err"
    /\ mr.result = "err"
    /\ monitor # None
    /\ monitor.deletionTimestamp
    /\ monitor.status.externalID \in DOMAIN remote

C6_ExternalIDWriteOnce ==
    [][ (monitor # None /\ monitor.status.externalID # "" /\ monitor' # None) =>
            monitor'.status.externalID = monitor.status.externalID
      ]_vars

\* The external update of a record deleted behind the operator's back has
\* failed, and the Monitor still names the record.
C6_Witness ==
    /\ mr.pc = "idle"
    /\ Len(mr.calls) = 2
    /\ mr.calls[2].op = "ExtUpdate"
    /\ mr.calls[2].out = "gone"
    /\ monitor # None
    /\ monitor.status.externalID = mr.calls[2].arg

(***************************************************************************)
(* C7.  Route Watcher idempotence: a reconcile of an enabled, valid        *)
(* Ingress that finds the managed Monitor already holding the desired      *)
(* target, interval and type returns having issued no store write, and the *)
(* Monitor is unchanged; no update is issued unless one of the three       *)
(* differs.                                                                *)
(***************************************************************************)
C7_InSyncNoWrites ==
    [][ (IWStep /\ iw.pc = "idle" /\ ingress # None /\ ~Disabled(ingress)
            /\ Valid(ingress) /\ monitor # None /\ Managed(monitor)
            /\ InSync(monitor, ingress, Interval)) =>
            /\ iw'.pc = "idle"
            /\ CallsIn(iw', WriteOps) = {}
            /\ monitor' = monitor
      ]_vars

\* The Monitor the Route Watcher created has been reconciled again, the
\* Ingress unchanged.
C7_Witness ==
    /\ iw.pc = "idle"
    /\ iw.calls = <<Call("GetIngress", "", "ok"), Call("GetMonitor", "", "ok")>>
    /\ iw.result = "nil"
    /\ ingress # None
    /\ ~Disabled(ingress)
    /\ Valid(ingress)
    /\ monitor # None
    /\ Managed(monitor)
    /\ InSync(monitor, ingress, Interval)

(***************************************************************************)
(* C8.  Cleanup on route removal, as specified: a reconcile that finds the *)
(* Ingress absent issues a store delete for the managed Monitor at the     *)
(* key, and is a no-op when no Monitor is there.                           *)
(***************************************************************************)
C8_AbsentRouteDeletesManaged ==
    [][ (IWStep /\ iw.pc = "idle" /\ ingress = None
            /\ iw'.calls[1].out = "notfound") =>
            /\ (monitor # None /\ Managed(monitor)) =>
                    /\ CallsIn(iw', {"Delete"}) # {}
                    /\ (monitor' = None \/ monitor'.deletionTimestamp)
            /\ monitor = None =>
                    /\ CallsIn(iw', WriteOps) = {}
                    /\ monitor' = None
      ]_vars

(***************************************************************************)
(* C9.  Disable then re-enable, as specified: a reconcile of an Ingress    *)
(* with the directive monitor "false" or "disabled" deletes the managed    *)
(* Monitor at the key; once the directive is removed, the reconcile that   *)
(* finds no Monitor creates it with the desired spec.                      *)
(***************************************************************************)
C9_DisabledRouteDeletesManaged ==
    [][ /\ (IWStep /\ iw.pc = "idle" /\ ingress # None /\ Disabled(ingress)
                /\ monitor # None /\ Managed(monitor)
                /\ iw'.calls[Len(iw'.calls)].out = "ok") =>
                /\ CallsIn(iw', {"Delete"}) # {}
                /\ (monitor' = None \/ monitor'.deletionTimestamp)
        /\ (IWStep /\ iw.pc = "create" /\ ~Disabled(iw.ing)
                /\ LastCall(iw').out = "ok") =>
                /\ monitor' # None
                /\ Managed(monitor')
                /\ InSync(monitor', iw.ing, Interval)
      ]_vars

(***************************************************************************)
(* C10.  Target derivation, as specified: for an Ingress with a first rule *)
(* whose host is not empty, the target of the Monitor to create is         *)
(* scheme://host followed by the normalized path when the path directive   *)
(* is present (here: present and not empty) and by nothing otherwise; the  *)
(* scheme is https exactly when there is a TLS entry, and the host is the  *)
(* first rule's.                                                           *)
(***************************************************************************)
C10_TargetDerivation ==
    (iw.pc = "create" /\ Valid(iw.ing)) =>
        iw.obj.spec.target = DesiredTarget(iw.ing)

(***************************************************************************)
(* C11.  Path normalization, as specified: what follows scheme://host in   *)
(* the target of the Monitor to create is, for a path directive with a     *)
(* value, that value with "/" put in front when it does not start with     *)
(* one and then one trailing "/" removed unless that leaves nothing but    *)
(* "/" ("h" gives "/h", "/v/" gives "/v", "h/" gives "/h", "/" gives "/"); *)
(* it is empty when the directive is absent.                               *)
(***************************************************************************)
C11_PathNormalization ==
    (iw.pc = "create" /\ Valid(iw.ing)) =>
        LET target == iw.obj.spec.target
            origin == (IF iw.ing.tls > 0 THEN Https ELSE Http) \o SchemeSep
                          \o iw.ing.rules[1]
            suffix == SubSeq(target, Len(origin) + 1, Len(target))
        IN  /\ SubSeq(target, 1, Len(origin)) = origin
            /\ PathKey \notin DOMAIN iw.ing.annotations => suffix = Empty
            /\ (PathKey \in DOMAIN iw.ing.annotations
                    /\ iw.ing.annotations[PathKey] # Empty) =>
                   /\ suffix = NormalizePath(iw.ing.annotations[PathKey])
                   /\ iw.ing.annotations[PathKey] = <<"h">> => suffix = <<"/", "h">>
                   /\ iw.ing.annotations[PathKey] = <<"/", "v", "/">> => suffix = <<"/", "v">>
                   /\ iw.ing.annotations[PathKey] = Slash => suffix = Slash

(***************************************************************************)
(* C12.  Interval resolution, as specified: the interval of the Monitor to *)
(* create is the interval directive of the Ingress when that is present    *)
(* and not empty, otherwise the configured default when that is not empty, *)
(* otherwise "30".                                                         *)
(***************************************************************************)
C12_IntervalResolution ==
    iw.pc = "create" =>
        LET directive == IF IntervalKey \in DOMAIN iw.ing.annotations
                         THEN iw.ing.annotations[IntervalKey]
                         ELSE Empty
        IN  /\ directive # Empty => iw.obj.spec.interval = directive
            /\ (directive = Empty /\ Interval # Empty) => iw.obj.spec.interval = Interval
            /\ (directive = Empty /\ Interval = Empty) => iw.obj.spec.interval = Thirty

(***************************************************************************)
(* C13.  Enable decision, as specified: a reconcile that has read the      *)
(* Ingress treats it as disabled exactly when its monitor directive is     *)
(* "false" or "disabled" - it then goes to the cleanup and prepares no     *)
(* Monitor to create - and an Ingress without the directive, or with any   *)
(* other value of it, is never taken to the cleanup: no delete is issued.  *)
(***************************************************************************)
C13_EnableDecision ==
    [][ (IWStep /\ iw.pc = "idle" /\ ingress # None /\ Len(iw'.calls) = 2
            /\ iw'.calls[2].out # "err") =>
            IF MonitorKey \in DOMAIN ingress.annotations
                   /\ ingress.annotations[MonitorKey] \in {StrFalse, StrDisabled}
            THEN iw'.pc = "idle" /\ CallsIn(iw', {"Create", "Update"}) = {}
            ELSE CallsIn(iw', {"Delete"}) = {}
      ]_vars

(***************************************************************************)
(* C14.  Validation failure leaves the store untouched, as specified: a    *)
(* reconcile that has read an enabled Ingress with no rules or an empty    *)
(* first host returns an error and issues no create, update or delete,     *)
(* both when there is no Monitor at the key and when there is a managed    *)
(* one (the Monitor stays as it is).                                       *)
(***************************************************************************)
C14_ValidationFailureNoWrites ==
    [][ (IWStep /\ iw.pc = "idle" /\ ingress # None /\ ~Disabled(ingress)
            /\ ~Valid(ingress) /\ (monitor = None \/ Managed(monitor))
            /\ Len(iw'.calls) = 2 /\ iw'.calls[2].out # "err") =>
            /\ iw'.pc = "idle"
            /\ iw'.result = "err"
            /\ CallsIn(iw', WriteOps) = {}
            /\ monitor' = monitor
      ]_vars

(***************************************************************************)
(* C15.  Validation failure is terminal, as specified: a reconcile that    *)
(* returned because no target could be derived from the Ingress (it read   *)
(* the Ingress, found no Monitor, and went no further) does not hand its   *)
(* caller the outcome of a failed store call, the error on which the       *)
(* request is queued again.                                                *)
(***************************************************************************)
C15_ValidationFailureNotRequeued ==
    (iw.pc = "idle"
        /\ iw.calls = <<Call("GetIngress", "", "ok"), Call("GetMonitor", "", "notfound")>>) =>
        iw.result # "err"

(***************************************************************************)
(* The cleanup of the IngressWatcherReconciler as VERSION_MANAGEMENT.md    *)
(* gives it: Reconcile hands an absent Ingress to handleIngressDeletion    *)
(* and a disabled one to handleMonitorCleanupForDisabledIngress.  The      *)
(* compiled Reconcile has neither; they are modelled on their own, next to *)
(* users who delete the Monitor while a cleanup is under way.              *)
(***************************************************************************)
\* The namespace/name of the one key of the model.
expectedSourceAnnotation == "default/a"

\* monitor.Annotations["upbot.app/source-ingress"]: "" when there is none.
SourceIngressOf(m) ==
    IF SourceIngressKey \in DOMAIN m.annotations THEN m.annotations[SourceIngressKey] ELSE ""

\* What a cleanup returns without having deleted anything.
CleanupReturn(calls, result) ==
    [pc |-> "idle", ing |-> None, obj |-> None, calls |-> calls, result |-> result]

\* Reconcile finds no Ingress: handleIngressDeletion, up to r.Delete.
Doc_handleIngressDeletion ==
    /\ iw.pc = "idle"
    /\ ingress = None
    /\ \E out \in (IF monitor = None THEN {"notfound"} ELSE {"ok"}) \cup {"err"} :
          LET calls == <<Call("GetIngress", "", "notfound"), Call("GetMonitor", "", out)>>
          IN  iw' = IF out = "notfound" THEN CleanupReturn(calls, "nil")
                    ELSE IF out = "err" THEN CleanupReturn(calls, "err")
                    ELSE IF ~Managed(monitor) THEN CleanupReturn(calls, "nil")
                    ELSE IF SourceIngressOf(monitor) # expectedSourceAnnotation
                         THEN CleanupReturn(calls, "nil")
                    ELSE [pc |-> "delete", ing |-> None, obj |-> monitor,
                          calls |-> calls, result |-> "none"]
    /\ UNCHANGED <<ingress, monitor, remote, nextID, Interval, mr>>

\* Reconcile finds the Ingress disabled: handleMonitorCleanupForDisabledIngress,
\* up to r.Delete.
Doc_handleMonitorCleanupForDisabledIngress ==
    /\ iw.pc = "idle"
    /\ ingress # None
    /\ Disabled(ingress)
    /\ \E out \in (IF monitor = None THEN {"notfound"} ELSE {"ok"}) \cup {"err"} :
          LET calls == <<Call("GetIngress", "", "ok"), Call("GetMonitor", "", out)>>
          IN  iw' = IF out = "notfound" THEN CleanupReturn(calls, "nil")
                    ELSE IF out = "err" THEN CleanupReturn(calls, "err")
                    ELSE IF ~Managed(monitor) THEN CleanupReturn(calls, "nil")
                    ELSE [pc |-> "delete", ing |-> ingress, obj |-> monitor,
                          calls |-> calls, result |-> "none"]
    /\ UNCHANGED <<ingress, monitor, remote, nextID, Interval, mr>>

\* r.Delete of either cleanup: whatever error the store gives is returned.  A
\* Monitor with a finalizer is marked for deletion, another is removed.
Doc_Delete ==
    /\ iw.pc = "delete"
    /\ \E out \in IF monitor = None THEN {"notfound"} ELSE {"ok", "err"} :
          /\ iw' = [iw EXCEPT !.pc = "idle", !.ing = None, !.obj = None,
                              !.calls = Append(@, Call("Delete", "", out)),
                              !.result = IF out = "ok" THEN "nil" ELSE "err"]
          /\ monitor' = IF out # "ok" THEN monitor
                        ELSE IF monitor.finalizers = {} THEN None
                        ELSE [monitor EXCEPT !.deletionTimestamp = TRUE]
          /\ mr' = IF out = "ok" THEN Touch(mr) ELSE mr
    /\ UNCHANGED <<ingress, remote, nextID, Interval>>

\* The Monitors a cleanup may find at the key: a user's, one created as the
\* compiled createMonitorFromIngress creates it, one carrying the source
\* annotation of this key or of another, each with or without the finalizer.
CleanupMonitors ==
    LET created == NewMonitor([annotations |-> EmptyMap, rules |-> <<HostA>>, tls |-> 0], Empty)
        annotated(src) ==
            [created EXCEPT !.annotations =
                [k \in {AutoGeneratedKey, SourceIngressKey} |->
                    IF k = AutoGeneratedKey THEN "true" ELSE src]]
        bare == {UserMonitor, created, annotated(expectedSourceAnnotation),
                 annotated("default/b")}
    IN  bare \cup {[m EXCEPT !.finalizers = {monitorFinalizer}] : m \in bare}

InitCleanup ==
    /\ ingress \in {None} \cup {i \in AllIngresses : Disabled(i)}
    /\ monitor \in {None} \cup CleanupMonitors
    /\ remote = [i \in {} |-> None]
    /\ nextID = 0
    /\ Interval = Empty
    /\ mr = MRInit
    /\ iw = IWInit

NextCleanup ==
    \/ Doc_handleIngressDeletion
    \/ Doc_handleMonitorCleanupForDisabledIngress
    \/ Doc_Delete
    \/ DeleteMonitor

SpecCleanup == InitCleanup /\ [][NextCleanup]_vars

(***************************************************************************)
(* C16.  Not-found on store delete is success, as specified: a cleanup     *)
(* that read a managed Monitor and whose store delete then reported        *)
(* not-found, the Monitor having been removed in between, returns nil.     *)
(***************************************************************************)
C16_DeleteNotFoundIsSuccess ==
    (iw.pc = "idle" /\ Len(iw.calls) = 3 /\ iw.calls[3].op = "Delete"
        /\ iw.calls[3].out = "notfound") =>
        iw.result = "nil"

(***************************************************************************)
(* Failed calls, as the two reconcilers record them.                       *)
(***************************************************************************)
\* The outcomes with which a call to the store or to the service fails.
FailureOuts == {"err", "conflict", "notfound", "exists", "gone"}

\* Not-found on a delete, of the store or of the service.
NotFoundOnDelete == {<<"Delete", "notfound">>, <<"ExtDelete", "notfound">>}

\* Not-found as the answer to a read of the store.
NotFoundOnRead ==
    {<<"Get", "notfound">>, <<"GetIngress", "notfound">>, <<"GetMonitor", "notfound">>}

\* Every call of the reconcile r that failed, those of tolerated apart, ended
\* the reconcile with an error.
FailuresReturned(r, tolerated) ==
    \A i \in 1..Len(r.calls) :
        (r.calls[i].out \in FailureOuts /\ <<r.calls[i].op, r.calls[i].out>> \notin tolerated) =>
            /\ r.pc = "idle"
            /\ r.result = "err"
            /\ i = Len(r.calls)

(***************************************************************************)
(* C17, as specified.  No error is swallowed: in both reconcilers a failed *)
(* store read or write or external call, other than not-found on a delete, *)
(* makes the reconcile return an error; nil is returned only when every    *)
(* call succeeded or was a not-found on a delete.                          *)
(***************************************************************************)
C17_Original ==
    /\ FailuresReturned(mr, NotFoundOnDelete)
    /\ FailuresReturned(iw, NotFoundOnDelete)

(***************************************************************************)
(* C17, as the code has it.  In both reconcilers a failed store read or    *)
(* write or external call makes the reconcile stop and return an error,    *)
(* unless it is a not-found: on a read of the store (the object is taken   *)
(* to be gone, or yet to be created) or on the external delete.  nil is    *)
(* returned only when every call succeeded or was one of those.            *)
(***************************************************************************)
C17_NoErrorSwallowed ==
    /\ FailuresReturned(mr, NotFoundOnRead \cup {<<"ExtDelete", "notfound">>})
    /\ FailuresReturned(iw, NotFoundOnRead \cup {<<"ExtDelete", "notfound">>})

\* The two reconcilers have each returned an error: the Lifecycle Reconciler
\* for a status write the store refused, the Route Watcher for a failed create.
C17_Witness ==
    /\ mr.pc = "idle"
    /\ Len(mr.calls) = 3
    /\ mr.calls[3].op = "StatusUpdate"
    /\ mr.calls[3].out \in FailureOuts
    /\ mr.result = "err"
    /\ iw.pc = "idle"
    /\ Len(iw.calls) = 3
    /\ iw.calls[3] = Call("Create", "", "err")
    /\ iw.result = "err"

(***************************************************************************)
(* C18.  Creation on first sight, as specified: the Monitor a successful   *)
(* r.Create puts at the key, where there was none, has the spec {"http",   *)
(* desired target, desired interval}, the labels upbot.app/source and      *)
(* upbot.app/target-type, the annotations upbot.app/auto-generated and     *)
(* upbot.app/source-ingress, the latter naming the Ingress by              *)
(* namespace/name, and the owner link; it therefore passes the label test  *)
(* and the source test of the cleanups.                                    *)
(***************************************************************************)
C18_CreationOnFirstSight ==
    [][ (IWStep /\ iw.pc = "create" /\ LastCall(iw').out = "ok") =>
            /\ monitor = None
            /\ monitor' # None
            /\ monitor'.spec = [type |-> Http,
                                target |-> DesiredTarget(iw.ing),
                                interval |-> DesiredInterval(iw.ing, Interval)]
            /\ monitor'.owner
            /\ Managed(monitor')
            /\ TargetTypeKey \in DOMAIN monitor'.labels
            /\ monitor'.labels[TargetTypeKey] = "http"
            /\ AutoGeneratedKey \in DOMAIN monitor'.annotations
            /\ monitor'.annotations[AutoGeneratedKey] = "true"
            /\ SourceIngressOf(monitor') = expectedSourceAnnotation
      ]_vars

(***************************************************************************)
(* C19.  Armed, create succeeds, as specified: a reconcile that called the *)
(* external create and returns nil leaves the Monitor with the identifier  *)
(* the call returned in status.externalID, so with a non-empty externalID. *)
(***************************************************************************)
C19_ArmedSuccessIsSynced ==
    [][ (MRStep /\ mr'.pc = "idle" /\ mr'.result = "nil"
            /\ CallsIn(mr', {"ExtCreate"}) # {}) =>
            /\ monitor' # None
            /\ monitor'.status.externalID # ""
            /\ monitor'.status.externalID = mr'.calls[2].out
      ]_vars

(***************************************************************************)
(* C20.  Armed, create fails: the step in which the external create call   *)
(* fails ends the reconcile with the error and without a store write, and  *)
(* leaves the Monitor as it is; the Monitor the reconcile read was Armed,  *)
(* and unless someone else wrote it meanwhile the stored one is that same  *)
(* Monitor, for which the next reconcile calls the external create again.  *)
(***************************************************************************)
C20_ArmedCreateFails ==
    [][ (MRCalls("ExtCreate") /\ LastCall(mr').out = "err") =>
            /\ mr'.pc = "idle"
            /\ mr'.result = "err"
            /\ CallsIn(mr', WriteOps) = {}
            /\ monitor' = monitor
            /\ remote' = remote
            /\ ContainsFinalizer(mr.obj)
            /\ mr.obj.status.externalID = ""
            /\ ~mr.stale =>
                   /\ monitor' = mr.obj
                   /\ Dispatch(monitor') = "extCreate"
      ]_vars

\* The create call has failed, the reconcile has returned the error, and the
\* Monitor in the store is Armed as before.
C20_Witness ==
    /\ mr.pc = "idle"
    /\ mr.calls = <<Call("Get", "", "ok"), Call("ExtCreate", "", "err")>>
    /\ mr.result = "err"
    /\ monitor # None
    /\ ContainsFinalizer(monitor)
    /\ ~monitor.deletionTimestamp
    /\ monitor.status.externalID = ""
    /\ Dispatch(monitor) = "extCreate"

foreignFinalizer == "example.com/finalizer"

\* The Monitors of InitLifecycle.  The platform keeps a Monitor whose deletion
\* is requested only while it has a finalizer, and an identifier is written
\* only to a Monitor that carries monitorFinalizer, which only a deletion takes
\* off again.
LifecycleMonitors ==
    { [UserMonitor EXCEPT !.finalizers = f, !.deletionTimestamp = d,
                          !.status.externalID = id] :
        <<f, d, id>> \in
            { t \in (SUBSET {monitorFinalizer, foreignFinalizer}) \X BOOLEAN \X {"", "1"} :
                /\ t[2] => t[1] # {}
                /\ (t[3] # "" /\ ~t[2]) => monitorFinalizer \in t[1] } }

InitLifecycle ==
    /\ ingress = None
    /\ monitor \in LifecycleMonitors
    /\ nextID = IF monitor.status.externalID = "" THEN 0 ELSE 1
    /\ remote \in IF monitor.status.externalID = ""
                  THEN {[i \in {} |-> None]}
                  ELSE {[i \in {} |-> None], [i \in {"1"} |-> Request(monitor)]}
    /\ Interval = Empty
    /\ mr = MRInit
    /\ iw = IWInit

NextLifecycle ==
    \/ MR_GetFails
    \/ MR_GetNotFound
    \/ MR_Get
    \/ MR_AddFinalizer
    \/ MR_ExtCreateFails
    \/ MR_ExtCreate
    \/ MR_ExtCreateNoID
    \/ MR_StatusUpdate
    \/ MR_ExtUpdate
    \/ MR_ExtDelete
    \/ MR_RemoveFinalizer
    \/ DeleteMonitor
    \/ RemoteVanish

SpecLifecycle == InitLifecycle /\ [][NextLifecycle]_vars

(***************************************************************************)
(* C22.  Deletion takes precedence: a reconcile that read a Monitor whose  *)
(* deletion is requested never adds the finalizer and never calls the      *)
(* external create or update.  When the Monitor has no monitorFinalizer    *)
(* the reconcile returns nil at once, with no external call and no write;  *)
(* when it has the finalizer and no identifier the reconcile goes straight *)
(* to removing the finalizer and writes the Monitor, with no external      *)
(* call.                                                                   *)
(***************************************************************************)
C22_DeletionTakesPrecedence ==
    [][ /\ (MRStep /\ mr.pc # "idle" /\ mr.obj.deletionTimestamp) =>
            /\ ~MRCalls("ExtCreate")
            /\ ~MRCalls("ExtUpdate")
            /\ ~(MRCalls("Update") /\ LastCall(mr').arg = "addFinalizer")
        /\ (MRStep /\ mr.pc = "idle" /\ monitor # None /\ monitor.deletionTimestamp
                /\ LastCall(mr') = Call("Get", "", "ok")) =>
            /\ mr'.pc \in {"idle", "extDelete", "removeFinalizer"}
            /\ ~ContainsFinalizer(monitor) =>
                   /\ mr'.pc = "idle"
                   /\ mr'.result = "nil"
                   /\ Len(mr'.calls) = 1
                   /\ monitor' = monitor
                   /\ remote' = remote
            /\ (ContainsFinalizer(monitor) /\ monitor.status.externalID = "") =>
                   mr'.pc = "removeFinalizer"
        /\ (MRStep /\ mr.pc = "removeFinalizer" /\ mr.obj.status.externalID = "") =>
            /\ MRCalls("Update")
            /\ LastCall(mr').arg = "removeFinalizer"
            /\ CallsIn(mr', ExternalOps) = {}
            /\ remote' = remote
            /\ LastCall(mr').out = "ok" =>
                   (monitor' = None \/ ~ContainsFinalizer(monitor'))
      ]_vars

\* A Monitor being deleted that never had an identifier has lost its finalizer
\* in a reconcile of two calls, the read and the write; another finalizer
\* keeps it in the store, where the next reconcile finds it already clean.
C22_Witness ==
    /\ mr.pc = "idle"
    /\ mr.calls = <<Call("Get", "", "ok"), Call("Update", "removeFinalizer", "ok")>>
    /\ mr.result = "nil"
    /\ monitor # None
    /\ monitor.deletionTimestamp
    /\ ~ContainsFinalizer(monitor)
    /\ monitor.status.externalID = ""

(***************************************************************************)
(* C23.  Stale managed Monitor repaired in one pass, as specified: a       *)
(* reconcile of an enabled, valid Ingress that finds a managed Monitor     *)
(* whose target, interval or type is not the desired one and returns nil   *)
(* has issued exactly one store update, and the Monitor then holds the     *)
(* spec {"http", desired target, desired interval}.                        *)
(***************************************************************************)
C23_StaleMonitorRepaired ==
    [][ (IWStep /\ iw.pc = "idle" /\ ingress # None /\ ~Disabled(ingress)
            /\ Valid(ingress) /\ monitor # None /\ Managed(monitor)
            /\ ~InSync(monitor, ingress, Interval)
            /\ iw'.pc = "idle" /\ iw'.result = "nil") =>
            /\ Cardinality(CallsIn(iw', {"Update"})) = 1
            /\ monitor' # None
            /\ monitor'.spec = [type |-> Http,
                                target |-> DesiredTarget(ingress),
                                interval |-> DesiredInterval(ingress, Interval)]
      ]_vars

(***************************************************************************)
(* C24.  No lost update between the two reconcilers: a write of the        *)
(* MonitorReconciler based on a version of the Monitor that was written    *)
(* since it was read is refused by the store and returned as an error,     *)
(* the Monitor staying as it is; a create of the IngressWatcherReconciler  *)
(* that finds a Monitor put at the key since it looked is refused and      *)
(* returned as an error likewise.  No step of the IngressWatcherReconciler *)
(* changes the finalizers or the status of a Monitor in the store, and no  *)
(* step of the MonitorReconciler changes its spec.                         *)
(***************************************************************************)
C24_NoLostUpdate ==
    [][ /\ (MRStep /\ Len(mr'.calls) > 1 /\ LastCall(mr').op \in WriteOps /\ mr.stale) =>
            /\ LastCall(mr').out \in {"conflict", "notfound"}
            /\ mr'.result = "err"
            /\ monitor' = monitor
        /\ (IWStep /\ iw.pc = "create" /\ monitor # None) =>
            /\ LastCall(iw').out = "exists"
            /\ iw'.result = "err"
            /\ monitor' = monitor
        /\ (IWStep /\ monitor # None /\ monitor' # None) =>
            /\ monitor'.finalizers = monitor.finalizers
            /\ monitor'.status = monitor.status
        /\ (MRStep /\ monitor # None /\ monitor' # None) =>
            monitor'.spec = monitor.spec
      ]_vars

\* The MonitorReconciler read a Monitor that was then deleted and created anew
\* by the IngressWatcherReconciler; its write of the finalizer was refused, and
\* the new Monitor is as it was created.
C24_Witness ==
    /\ mr.pc = "idle"
    /\ mr.calls = <<Call("Get", "", "ok"), Call("Update", "addFinalizer", "conflict")>>
    /\ mr.result = "err"
    /\ iw.pc = "idle"
    /\ Len(iw.calls) = 3
    /\ iw.calls[3] = Call("Create", "", "ok")
    /\ monitor # None
    /\ Managed(monitor)
    /\ ~ContainsFinalizer(monitor)

(***************************************************************************)
(* C25.  At most one remote record per Monitor, as specified: over the     *)
(* life of one Monitor the external create call succeeds at most once -    *)
(* when it succeeds, with or without an identifier in the response, no     *)
(* record was created for the Monitor before.                              *)
(***************************************************************************)
C25_AtMostOneRemoteRecord ==
    [][ (MRCalls("ExtCreate") /\ LastCall(mr').out # "err") => nextID = 0 ]_vars

(***************************************************************************)
(* C26.  No remote record is leaked on deletion, as specified: when the    *)
(* MonitorReconciler has removed the finalizer from the Monitor, no record *)
(* created for that Monitor is left at the external service - each was     *)
(* deleted by the reconciler or had vanished already.                      *)
(***************************************************************************)
C26_NoRemoteRecordLeaked ==
    [][ (MRCalls("Update") /\ LastCall(mr').arg = "removeFinalizer"
            /\ LastCall(mr').out = "ok") =>
            DOMAIN remote' = {}
      ]_vars

(***************************************************************************)
(* The MonitorReconciler under a scheduler that keeps reconciling the      *)
(* Monitor (a request is queued for every change and again after every     *)
(* error) and lets a reconcile that has started run on; the external       *)
(* delete does not fail for ever, and neither does the write that removes  *)
(* the finalizer.                                                          *)
(***************************************************************************)
\* A step of a reconcile that is under way.
MRContinue ==
    \/ MR_AddFinalizer
    \/ MR_ExtCreateFails
    \/ MR_ExtCreate
    \/ MR_ExtCreateNoID
    \/ MR_StatusUpdate
    \/ MR_ExtUpdate
    \/ MR_ExtDelete
    \/ MR_RemoveFinalizer

SpecLifecycleFair ==
    /\ InitLifecycle
    /\ [][NextLifecycle]_vars
    /\ WF_vars(MR_Get)
    /\ WF_vars(MRContinue)
    /\ SF_vars(MR_ExtDelete /\ mr'.pc = "removeFinalizer")
    /\ SF_vars(MR_RemoveFinalizer /\ mr'.result = "nil")

(***************************************************************************)
(* C27.  Deletion eventually completes: a Monitor whose deletion is        *)
(* requested and that carries the finalizer eventually carries it no more, *)
(* and is then gone from the store unless another finalizer holds it; and  *)
(* a Monitor that carries the finalizer leaves the store only in the step  *)
(* in which the MonitorReconciler's write removing the finalizer succeeds. *)
(***************************************************************************)
C27_DeletionCompletes ==
    /\ [] ( (monitor # None /\ monitor.deletionTimestamp /\ ContainsFinalizer(monitor)) =>
                <> ( /\ ~(monitor # None /\ ContainsFinalizer(monitor))
                     /\ monitor # None => foreignFinalizer \in monitor.finalizers ) )
    /\ [][ (monitor # None /\ ContainsFinalizer(monitor) /\ monitor' = None) =>
               /\ MRCalls("Update")
               /\ LastCall(mr').arg = "removeFinalizer"
               /\ LastCall(mr').out = "ok"
         ]_vars

\* The record has been deleted at the service, the finalizer removed, and the
\* Monitor is gone.
C27_Witness ==
    /\ mr.pc = "idle"
    /\ mr.calls = <<Call("Get", "", "ok"), Call("ExtDelete", "1", "ok"),
                    Call("Update", "removeFinalizer", "ok")>>
    /\ mr.result = "nil"
    /\ monitor = None
    /\ DOMAIN remote = {}

(***************************************************************************)
(* The two reconcilers on an Ingress that stays as it is - enabled, with a *)
(* first rule that has a host - from a store without a Monitor, every call *)
(* to the store and to the service succeeding, and both reconcilers run    *)
(* again and again.                                                        *)
(***************************************************************************)
InitConverge ==
    /\ ingress \in {i \in AllIngresses : Valid(i) /\ ~Disabled(i)}
    /\ monitor = None
    /\ remote = [i \in {} |-> None]
    /\ nextID = 0
    /\ Interval \in ConfiguredIntervals
    /\ mr = MRInit
    /\ iw = IWInit

\* The steps of the IngressWatcherReconciler in which no call fails.
IWSucceeds ==
    \/ IW_MonitorExists
    \/ IW_MonitorNotFound
    \/ IW_Create /\ iw'.result = "nil"

\* The steps of the MonitorReconciler in which no call fails and the create
\* response carries its identifier.
MRSucceeds ==
    \/ MR_GetNotFound
    \/ MR_Get
    \/ MR_AddFinalizer /\ mr'.result = "nil"
    \/ MR_ExtCreate
    \/ MR_StatusUpdate /\ mr'.result = "nil"
    \/ MR_ExtUpdate /\ mr'.result = "nil"

NextConverge == IWSucceeds \/ MRSucceeds

SpecConverge ==
    /\ InitConverge
    /\ [][NextConverge]_vars
    /\ WF_vars(IWSucceeds)
    /\ WF_vars(MRSucceeds)

(***************************************************************************)
(* C28.  End-to-end convergence, as specified: the system reaches, and     *)
(* from then on stays in, a state where the Monitor at the key is managed, *)
(* holds the spec desired for the Ingress, carries the finalizer and an    *)
(* identifier, and the record of that identifier holds the same spec.      *)
(***************************************************************************)
C28_Convergence ==
    <>[] ( /\ monitor # None
           /\ Managed(monitor)
           /\ InSync(monitor, ingress, Interval)
           /\ ContainsFinalizer(monitor)
           /\ monitor.status.externalID # ""
           /\ monitor.status.externalID \in DOMAIN remote
           /\ remote[monitor.status.externalID] = monitor.spec )

(***************************************************************************)
(* C29.  Write frames: a step of the MonitorReconciler that leaves the     *)
(* Monitor in the store leaves its spec, labels, annotations, owner link   *)
(* and deletion request as they are and changes, of its finalizers, none   *)
(* but monitorFinalizer - it changes only that finalizer and the status;   *)
(* a step of the IngressWatcherReconciler taken while a Monitor is in the  *)
(* store changes neither its finalizers nor its status, labels,            *)
(* annotations or deletion request.                                        *)
(***************************************************************************)
C29_WriteFrames ==
    [][ /\ (MRStep /\ monitor # None /\ monitor' # None) =>
            /\ monitor'.spec = monitor.spec
            /\ monitor'.labels = monitor.labels
            /\ monitor'.annotations = monitor.annotations
            /\ monitor'.owner = monitor.owner
            /\ monitor'.deletionTimestamp = monitor.deletionTimestamp
            /\ monitor'.finalizers \ {monitorFinalizer} = monitor.finalizers \ {monitorFinalizer}
        /\ (IWStep /\ monitor # None) =>
            /\ monitor' # None
            /\ monitor'.finalizers = monitor.finalizers
            /\ monitor'.status = monitor.status
            /\ monitor'.labels = monitor.labels
            /\ monitor'.annotations = monitor.annotations
            /\ monitor'.deletionTimestamp = monitor.deletionTimestamp
      ]_vars

\* The MonitorReconciler has written the finalizer and then the identifier to
\* the Monitor the IngressWatcherReconciler created, which has its labels,
\* annotations and spec as created.
C29_Witness ==
    /\ mr.pc = "idle"
    /\ Len(mr.calls) = 3
    /\ mr.calls[3].op = "StatusUpdate"
    /\ mr.calls[3].out = "ok"
    /\ ingress # None
    /\ monitor # None
    /\ monitor.status.externalID = mr.calls[3].arg
    /\ ContainsFinalizer(monitor)
    /\ monitor.labels = NewMonitor(ingress, Interval).labels
    /\ monitor.annotations = NewMonitor(ingress, Interval).annotations
    /\ monitor.spec = NewMonitor(ingress, Interval).spec

=============================================================================
